---- MODULE Spec2Model ----
(***************************************************************************)
(* ArkAngel: a browser extension that answers questions about the page a   *)
(* tab shows.  Three contexts that share no memory are modelled:           *)
(*   - the content script of each tab      (src/extension/content.js)      *)
(*   - the background coordinator          (src/extension/background.js)   *)
(*   - the side panel                      (src/extension/sidepanel.js)    *)
(* and the backend that answers questions  (src/unnamed/part_001).         *)
(*                                                                         *)
(* Texts are strings; TLC evaluates Len, \o, Head, Tail and SubSeq on them. *)
(***************************************************************************)
EXTENDS Integers, Sequences, FiniteSets, TLC

\* ------------------------------------------------------------------ bounds
NumTabs == 2
MaxNav == 1
MaxInFlight == 2
MaxSubmits == 2

\* ------------------------------------------------------------------ program constants
HistoryKeep == 9

\* ------------------------------------------------------------------ values
Null == [null |-> TRUE]
NoTab == 0
Tabs == 1..NumTabs
Schemes == {"https", "chrome"}
SelTexts == {"", "sel"}

VARIABLES
    \* the browser
    activeTab,       \* the tab the window shows
    openTabs,        \* the tabs that have not been closed
    page,            \* page[t]: the URL loaded in tab t
    sel,             \* sel[t]: the text selected in tab t's document
    \* the content script of each tab
    autoTimer,       \* autoTimer[t]: setTimeout(autoExtractContext, 1000) is pending
    selTimer,        \* selTimer[t]: how many selectionchange debounce timers are pending
    \* the background coordinator
    currentContext,
    currentTabId,
    activating,      \* the tabs of the onActivated handlers suspended at their await
    calls,           \* extractContextFromTab calls suspended at an await
    msgs,            \* runtime messages sent by content scripts, not yet handled
    lastRead,        \* the response to getContext on its way to the requester, or Null
    lastReply,       \* the response to extractContext on its way to the requester, or Null
    lastEvent,       \* history: the kind of the last tab event the coordinator received,
                     \* and whether the snapshot stored is a push accepted since
    \* the side panel: this.state of SidePanelApp
    pageContext,
    question,
    answer,
    isLoading,
    connectionStatus,
    error,
    conversationHistory,
    \* the side panel's asynchronous calls
    fetches,         \* POST /api/ask requests awaiting their response
    refreshes,       \* refreshContext calls suspended at an await
    probes,          \* checkBackendConnection calls awaiting /health
    clock,           \* the panel's time: it ticks at each dispatch and numbers the requests
    sent,            \* requests dispatched in this run
    \* the backend: one POST /api/ask at a time
    askPc,           \* "idle", "remote" (awaiting the OpenAI call) or "done"
    askBody,         \* req.body of the request being handled
    askRemote,       \* what the OpenAI call did: "none" (not made), "content", "empty", "fails"
    askRemoteCalls,  \* how often this request has called openai.chat.completions.create
    askFallbackCalls,\* how often this request has called generateContextualAnswer
    askAnswer,       \* what generateAIResponse returned or threw
    askRes,          \* the HTTP response, or Null
    \* the backend: one POST /api/analyze-context at a time
    analyzeBody,     \* req.body of the request just handled, or Null
    analyzeRes,      \* its HTTP response, or Null
    \* one document and the last snapshot an extractor made of it
    dom,             \* the document's heading, action and form elements, in document order
    snapshot         \* the extractor that ran and the context it returned, or Null

browserVars == <<activeTab, openTabs, page, sel>>
contentVars == <<autoTimer, selTimer>>
coordVars == <<currentContext, currentTabId, activating, calls, msgs, lastRead, lastReply,
              lastEvent>>
panelVars == <<pageContext, question, answer, isLoading, connectionStatus, error,
               conversationHistory, fetches, refreshes, probes, clock, sent>>
askVars == <<askPc, askBody, askRemote, askRemoteCalls, askFallbackCalls, askAnswer, askRes,
            analyzeBody, analyzeRes>>
extVars == <<dom, snapshot>>
vars == <<browserVars, contentVars, coordVars, panelVars, askVars, extVars>>

\* What the actions of one context leave alone in the others.
notCoord == <<panelVars, askVars, extVars>>
notPanel == <<contentVars, coordVars, askVars, extVars>>
notAsk == <<browserVars, contentVars, coordVars, panelVars, extVars>>
notExt == <<browserVars, contentVars, coordVars, panelVars, askVars>>

\* ------------------------------------------------------------------ the browser
Url(t, v, s) == [site |-> t, ver |-> v, scheme |-> s]

\* the URL test of extractContextFromTab, had it let every URL pass
IsPrivilegedNever(url) == FALSE

\* tab.url.startsWith('chrome://') || tab.url.startsWith('chrome-extension://')
IsPrivileged(url) == url.scheme = "chrome"

\* Content scripts are injected into ordinary pages only.
HasContentScript(t) == t \in openTabs /\ ~IsPrivileged(page[t])

\* What an extractor run in tab t returns: the page is identified by its URL,
\* the selection is read at the time of the run.
ExtractPageContext(t) == [url |-> page[t], selected_text |-> sel[t]]

RECURSIVE SumOver(_, _)
SumOver(f, S) == IF S = {} THEN 0
                 ELSE LET x == CHOOSE y \in S : TRUE IN f[x] + SumOver(f, S \ {x})

\* Navigations so far, and the asynchronous work outstanding in the coordinator:
\* messages not yet handled, extraction calls and handlers suspended at an await.
Navigations == SumOver([t \in Tabs |-> page[t].ver], Tabs)
InFlight ==
    Cardinality(msgs) + Cardinality(calls) + Len(activating)
      + SumOver(selTimer, Tabs)
      + (IF lastRead # Null THEN 1 ELSE 0) + (IF lastReply # Null THEN 1 ELSE 0)

\* A tab-activation or navigation-complete event makes every extraction result
\* that is still on its way a result of the earlier tab state.
MarkStaleMsgs == {IF m.action = "contextExtracted" THEN [m EXCEPT !.stale = TRUE] ELSE m : m \in msgs}
MarkStaleCalls == {[c EXCEPT !.stale = TRUE] : c \in calls}

\* The user switches to tab t.
BrowserActivate(t) ==
    /\ t \in openTabs
    /\ t # activeTab
    /\ activeTab' = t
    /\ UNCHANGED <<openTabs, page, sel>>

\* Tab t finishes loading a new document.
BrowserLoad(t, scheme) ==
    /\ t \in openTabs
    /\ Navigations < MaxNav
    /\ page' = [page EXCEPT ![t] = Url(t, @.ver + 1, scheme)]
    /\ sel' = [sel EXCEPT ![t] = ""]
    /\ UNCHANGED <<activeTab, openTabs>>

\* ------------------------------------------------------------------ the coordinator
\* chrome.tabs.onActivated: the statements before the await.
OnActivated(t) ==
    /\ BrowserActivate(t)
    /\ InFlight < MaxInFlight
    /\ currentTabId' = t
    /\ activating' = Append(activating, t)
    /\ msgs' = MarkStaleMsgs
    /\ calls' = MarkStaleCalls
    /\ UNCHANGED <<contentVars, currentContext, lastRead, lastReply>>
    /\ lastEvent' = [kind |-> "activated", pushed |-> FALSE]
    /\ UNCHANGED notCoord

\* chrome.tabs.onActivated: the statement after await chrome.sidePanel.setOptions.
OnActivatedResume(i) ==
    /\ i \in 1..Len(activating)
    /\ activating' = SubSeq(activating, 1, i - 1) \o SubSeq(activating, i + 1, Len(activating))
    /\ currentContext' = Null
    /\ UNCHANGED <<browserVars, contentVars, currentTabId, calls, msgs, lastRead, lastReply>>
    /\ lastEvent' = [lastEvent EXCEPT !.pushed = FALSE]
    /\ UNCHANGED notCoord

\* Tab t finishes loading a new document; chrome.tabs.onUpdated fires with
\* changeInfo.status = 'complete' and tab.active = (t = activeTab).
OnUpdated(t, scheme) ==
    /\ BrowserLoad(t, scheme)
    /\ autoTimer' = [autoTimer EXCEPT ![t] = (scheme # "chrome")]
    /\ selTimer' = [selTimer EXCEPT ![t] = 0]
    /\ IF t = activeTab
         THEN /\ currentTabId' = t
              /\ currentContext' = Null
              /\ msgs' = MarkStaleMsgs
              /\ calls' = MarkStaleCalls
         ELSE UNCHANGED <<currentTabId, currentContext, msgs, calls>>
    /\ UNCHANGED <<activating, lastRead, lastReply>>
    /\ lastEvent' = IF t = activeTab THEN [kind |-> "updated", pushed |-> FALSE]
                                     ELSE lastEvent
    /\ UNCHANGED notCoord

\* content.js: autoExtractContext, run by the timer set at page load; when
\* extractPageContext throws, the catch logs and nothing is sent.
AutoExtractContext(t, ok) ==
    /\ autoTimer[t]
    /\ HasContentScript(t)
    /\ InFlight < MaxInFlight
    /\ autoTimer' = [autoTimer EXCEPT ![t] = FALSE]
    /\ msgs' = IF ok
                THEN msgs \cup {[action |-> "contextExtracted", tab |-> t,
                                 context |-> ExtractPageContext(t), stale |-> FALSE]}
                ELSE msgs
    /\ UNCHANGED <<browserVars, selTimer, currentContext, currentTabId, activating,
                   calls, lastRead, lastReply>>
    /\ UNCHANGED <<lastEvent, notCoord>>

\* the selectionchange listener, had it set a timer without clearing the last
restartSelectionTimeoutNoClear(pending) == pending + 1

\* clearTimeout(selectionTimeout); selectionTimeout = setTimeout(...)
restartSelectionTimeout(pending) == 1

\* The user changes the selection in tab t; content.js restarts its debounce timer.
SelectionChange(t, s) ==
    /\ t = activeTab
    /\ HasContentScript(t)
    /\ s # sel[t]
    /\ selTimer[t] > 0 \/ InFlight < MaxInFlight
    /\ sel' = [sel EXCEPT ![t] = s]
    /\ selTimer' = [selTimer EXCEPT ![t] = restartSelectionTimeout(@)]
    /\ UNCHANGED <<activeTab, openTabs, page, autoTimer, coordVars>>
    /\ UNCHANGED <<lastEvent, notCoord>>

\* the timer callback, had it sent the selection whether empty or not
selectionMessagesAlways(t) ==
    {[action |-> "selectionChanged", tab |-> t, selectedText |-> sel[t]]}

\* content.js: what the timer callback sends, `if (selectedText.length > 0)`
selectionMessages(t) ==
    IF Len(sel[t]) > 0
      THEN {[action |-> "selectionChanged", tab |-> t, selectedText |-> sel[t]]}
      ELSE {}

\* content.js: the debounce timer fires.
SelectionTimer(t) ==
    /\ selTimer[t] > 0
    /\ selTimer' = [selTimer EXCEPT ![t] = @ - 1]
    /\ msgs' = msgs \cup selectionMessages(t)
    /\ UNCHANGED <<browserVars, autoTimer, currentContext, currentTabId, activating,
                   calls, lastRead, lastReply>>
    /\ UNCHANGED <<lastEvent, notCoord>>

\* background.js: handleContextExtracted
handleContextExtracted(m) ==
    IF m.tab = currentTabId
      THEN [url |-> m.context.url, selected_text |-> m.context.selected_text,
            tabId |-> m.tab, tabUrl |-> m.context.url]
      ELSE currentContext

HandleContextExtracted(m) ==
    /\ m \in msgs
    /\ m.action = "contextExtracted"
    /\ msgs' = msgs \ {m}
    /\ currentContext' = handleContextExtracted(m)
    /\ UNCHANGED <<browserVars, contentVars, currentTabId, activating, calls,
                   lastRead, lastReply>>
    /\ lastEvent' = IF m.tab = currentTabId THEN [lastEvent EXCEPT !.pushed = TRUE]
                                           ELSE lastEvent
    /\ UNCHANGED notCoord

\* handleSelectionChanged, had it not compared the sender's tab with currentTabId
handleSelectionChangedAnyTab(m) ==
    IF currentContext # Null
      THEN [currentContext EXCEPT !.selected_text = m.selectedText]
      ELSE currentContext

\* background.js: handleSelectionChanged
handleSelectionChanged(m) ==
    IF m.tab = currentTabId /\ currentContext # Null
      THEN [currentContext EXCEPT !.selected_text = m.selectedText]
      ELSE currentContext

HandleSelectionChanged(m) ==
    /\ m \in msgs
    /\ m.action = "selectionChanged"
    /\ msgs' = msgs \ {m}
    /\ currentContext' = handleSelectionChanged(m)
    /\ UNCHANGED <<browserVars, contentVars, currentTabId, activating, calls,
                   lastRead, lastReply>>
    /\ UNCHANGED <<lastEvent, notCoord>>

\* case 'getContext', had it answered only when no extraction is under way
GetContextWaits ==
    /\ lastRead = Null
    /\ calls = {}
    /\ InFlight < MaxInFlight
    /\ lastRead' = [context |-> currentContext]
    /\ UNCHANGED <<browserVars, contentVars, currentContext, currentTabId, activating,
                   calls, msgs, lastReply>>
    /\ UNCHANGED <<lastEvent, notCoord>>

\* background.js: case 'getContext'
GetContext ==
    /\ lastRead = Null
    /\ InFlight < MaxInFlight
    /\ lastRead' = [context |-> currentContext]
    /\ UNCHANGED <<browserVars, contentVars, currentContext, currentTabId, activating,
                   calls, msgs, lastReply>>
    /\ UNCHANGED <<lastEvent, notCoord>>

Failure(msg) == [success |-> FALSE, error |-> msg]
Success(ctx) == [success |-> TRUE, context |-> ctx]

\* background.js: case 'extractContext' up to the first await of
\* extractContextFromTab(sender.tab?.id || currentTabId).
ExtractContext(sender) ==
    LET tabId == IF sender # NoTab THEN sender ELSE currentTabId IN
    /\ lastReply = Null
    /\ InFlight < MaxInFlight
    /\ IF tabId = NoTab
         THEN /\ lastReply' = Failure("No active tab")
              /\ UNCHANGED calls
         ELSE /\ calls' = calls \cup {[tabId |-> tabId, pc |-> "get", tabUrl |-> Null,
                                       result |-> Null, rejected |-> FALSE,
                                       stale |-> FALSE]}
              /\ UNCHANGED lastReply
    /\ UNCHANGED <<browserVars, contentVars, currentContext, currentTabId, activating,
                   msgs, lastRead>>
    /\ UNCHANGED <<lastEvent, notCoord>>

\* extractContextFromTab: chrome.tabs.get has answered.
ExtractGotTab(c) ==
    /\ c \in calls
    /\ c.pc = "get"
    /\ IF c.tabId \notin openTabs
         THEN /\ calls' = calls \ {c}
              /\ lastReply' = Failure("No tab with id")
       ELSE IF IsPrivileged(page[c.tabId])
         THEN /\ calls' = calls \ {c}
              /\ lastReply' = Failure("Cannot access chrome:// or extension pages")
         ELSE /\ calls' = (calls \ {c}) \cup {[c EXCEPT !.pc = "script", !.tabUrl = page[c.tabId]]}
              /\ UNCHANGED lastReply
    /\ UNCHANGED <<browserVars, contentVars, currentContext, currentTabId, activating,
                   msgs, lastRead>>
    /\ UNCHANGED <<lastEvent, notCoord>>

\* error.message of a rejected chrome.scripting.executeScript
ScriptRejection == "Error from chrome.scripting.executeScript"

\* chrome.scripting.executeScript settles: the injected function returns a
\* context, or nothing comes back, or the call rejects (always so when the tab
\* is gone or has gone to a privileged page meanwhile).
ExtractScriptRuns(c, outcome) ==
    /\ c \in calls
    /\ c.pc = "script"
    /\ LET gone == c.tabId \notin openTabs \/ IsPrivileged(page[c.tabId]) IN
       calls' = (calls \ {c}) \cup
                  {[c EXCEPT !.pc = "resume",
                             !.rejected = gone \/ outcome = "rejects",
                             !.result = IF outcome = "context" /\ ~gone
                                          THEN ExtractPageContext(c.tabId) ELSE Null]}
    /\ UNCHANGED <<browserVars, contentVars, currentContext, currentTabId, activating,
                   msgs, lastRead, lastReply>>
    /\ UNCHANGED <<lastEvent, notCoord>>

\* the store after the await, had a failed extraction cleared the snapshot
extractContextFromTabStoreClears(c) ==
    IF c.result # Null
      THEN [url |-> c.result.url, selected_text |-> c.result.selected_text,
            tabId |-> c.tabId, tabUrl |-> c.tabUrl]
      ELSE Null

\* extractContextFromTab: the statements after await chrome.scripting.executeScript.
extractContextFromTabStore(c) ==
    IF c.result # Null
      THEN [url |-> c.result.url, selected_text |-> c.result.selected_text,
            tabId |-> c.tabId, tabUrl |-> c.tabUrl]
      ELSE currentContext

ExtractResume(c) ==
    /\ c \in calls
    /\ c.pc = "resume"
    /\ calls' = calls \ {c}
    /\ currentContext' = extractContextFromTabStore(c)
    /\ lastReply' = IF c.rejected THEN Failure(ScriptRejection)
                   ELSE IF c.result # Null THEN Success(c.result)
                   ELSE Failure("Failed to extract context")
    /\ UNCHANGED <<browserVars, contentVars, currentTabId, activating, msgs, lastRead>>
    /\ lastEvent' = IF c.result # Null THEN [lastEvent EXCEPT !.pushed = FALSE]
                                       ELSE lastEvent
    /\ UNCHANGED notCoord

\* The requester receives the response to its getContext.
ReadReceived ==
    /\ lastRead # Null
    /\ lastRead' = Null
    /\ UNCHANGED <<browserVars, contentVars, currentContext, currentTabId, activating,
                   calls, msgs, lastReply>>
    /\ UNCHANGED <<lastEvent, notCoord>>

\* The requester receives the response to its extractContext.
ReplyReceived ==
    /\ lastReply # Null
    /\ lastReply' = Null
    /\ UNCHANGED <<browserVars, contentVars, currentContext, currentTabId, activating,
                   calls, msgs, lastRead>>
    /\ UNCHANGED <<lastEvent, notCoord>>

\* ------------------------------------------------------------------ the side panel
QuestionTexts == {"", "  ", " what"}

RECURSIVE TrimStart(_)
TrimStart(s) == IF s # "" /\ Head(s) = " " THEN TrimStart(Tail(s)) ELSE s

RECURSIVE TrimEnd(_)
TrimEnd(s) ==
    IF s # "" /\ SubSeq(s, Len(s), Len(s)) = " " THEN TrimEnd(SubSeq(s, 1, Len(s) - 1)) ELSE s

\* String.prototype.trim
Trim(s) == TrimEnd(TrimStart(s))

\* Array.prototype.slice(0, n)
\* slice, had it returned its argument whole
Slice0Uncut(s, n) == s
Slice0(s, n) == SubSeq(s, 1, IF Len(s) < n THEN Len(s) ELSE n)

\* this.state.error: null, or one of the three messages
NoError == ""
ConnectError == "Cannot connect to local backend server. Make sure the server is running on http://localhost:5000"
ExtractError == "Failed to extract page context"
SubmitError == "Failed to get response from backend. Please check if the server is running."

PanelInFlight == Cardinality(fetches) + Cardinality(refreshes) + Cardinality(probes)

\* constructor, and init() up to its first await
InitPanel ==
    /\ pageContext = Null
    /\ question = ""
    /\ answer = Null
    /\ isLoading = FALSE
    /\ connectionStatus = "disconnected"
    /\ error = NoError
    /\ conversationHistory = <<>>
    /\ fetches = {}
    /\ refreshes = {}
    /\ probes = {[init |-> TRUE]}
    /\ clock = 0
    /\ sent = 0

\* The user switches tab, or the tab finishes loading a new document, while the
\* panel is open.
TabSwitched(t) ==
    /\ BrowserActivate(t)
    /\ UNCHANGED <<panelVars, notPanel>>

PageLoaded(t) ==
    /\ BrowserLoad(t, "https")
    /\ UNCHANGED <<panelVars, notPanel>>

\* bindEvents: the input listener
TypeQuestion(q) ==
    /\ q # question
    /\ question' = q
    /\ UNCHANGED <<pageContext, answer, isLoading, connectionStatus, error,
                   conversationHistory, fetches, refreshes, probes, clock, sent>>
    /\ UNCHANGED <<browserVars, notPanel>>

\* submitQuestion up to its await: the early return, or updateState and fetch.
\* submitQuestion's first guard, had it compared the raw text
SubmitRejectedNoTrim == question = "" \/ pageContext = Null

\* submitQuestion's first guard, had it also required a connected backend
SubmitRejectedOffline ==
    Trim(question) = "" \/ pageContext = Null \/ connectionStatus # "connected"

\* submitQuestion's first guard, had it not looked at the snapshot
SubmitRejectedBlankOnly == Trim(question) = ""

SubmitRejected == Trim(question) = "" \/ pageContext = Null

submitQuestion ==
    IF SubmitRejected
      THEN UNCHANGED <<isLoading, error, fetches, clock, sent>>
      ELSE /\ sent < MaxSubmits
           /\ PanelInFlight < MaxInFlight
           /\ isLoading' = TRUE
           /\ error' = NoError
           /\ sent' = sent + 1
           /\ clock' = clock + 1
           /\ fetches' = fetches \cup {[id |-> clock + 1, question |-> question,
                                        context |-> pageContext,
                                        asked |-> page[activeTab]]}

\* render: the Ask button is disabled when !question.trim() || isLoading
SubmitDisabled == Trim(question) = "" \/ isLoading

\* bindEvents: a click on the Ask button
ClickSubmit ==
    /\ ~SubmitDisabled
    /\ submitQuestion
    /\ UNCHANGED <<pageContext, question, answer, connectionStatus,
                   conversationHistory, refreshes, probes>>
    /\ UNCHANGED <<browserVars, notPanel>>

\* bindEvents: Ctrl+Enter in the question field
CtrlEnter ==
    /\ submitQuestion
    /\ UNCHANGED <<pageContext, question, answer, connectionStatus,
                   conversationHistory, refreshes, probes>>
    /\ UNCHANGED <<browserVars, notPanel>>

\* The backend's answer to request r, as the panel sees it.
AnswerFor(r) == [id |-> r.id, question |-> r.question]

\* the history update, had it kept ten of the old entries
newHistoryKeepsTen(data) ==
    <<[question |-> question, answer |-> data.answer, timestamp |-> clock]>>
      \o Slice0(conversationHistory, HistoryKeep + 1)

\* submitQuestion: newHistoryItem and the new conversationHistory
newHistory(data) ==
    <<[question |-> question, answer |-> data.answer, timestamp |-> clock]>>
      \o Slice0(conversationHistory, HistoryKeep)

\* submitQuestion after its await: response.ok
FetchOk(r) ==
    /\ r \in fetches
    /\ fetches' = fetches \ {r}
    /\ LET data == [answer |-> AnswerFor(r)] IN
         /\ answer' = data.answer
         /\ question' = ""
         /\ isLoading' = FALSE
         /\ conversationHistory' = newHistory(data)
    /\ UNCHANGED <<pageContext, connectionStatus, error, refreshes, probes, clock, sent>>
    /\ UNCHANGED <<browserVars, notPanel>>

\* the catch block, had it also dropped the answer on display
FetchFailsClearsAnswer(r) ==
    /\ r \in fetches
    /\ fetches' = fetches \ {r}
    /\ isLoading' = FALSE
    /\ error' = SubmitError
    /\ answer' = Null
    /\ UNCHANGED <<pageContext, question, connectionStatus,
                   conversationHistory, refreshes, probes, clock, sent>>
    /\ UNCHANGED <<browserVars, notPanel>>

\* submitQuestion after its await: fetch rejects, or !response.ok, or a body
\* that is no JSON; the catch block.
FetchFails(r) ==
    /\ r \in fetches
    /\ fetches' = fetches \ {r}
    /\ isLoading' = FALSE
    /\ error' = SubmitError
    /\ UNCHANGED <<pageContext, question, answer, connectionStatus,
                   conversationHistory, refreshes, probes, clock, sent>>
    /\ UNCHANGED <<browserVars, notPanel>>

\* bindEvents: a click on Clear (rendered when the history is not empty)
ClearHistory ==
    /\ Len(conversationHistory) > 0
    /\ conversationHistory' = <<>>
    /\ UNCHANGED <<pageContext, question, answer, isLoading, connectionStatus, error,
                   fetches, refreshes, probes, clock, sent>>
    /\ UNCHANGED <<browserVars, notPanel>>

\* bindEvents: a click on Retry (rendered with the error card)
RetryConnection ==
    /\ error # NoError
    /\ PanelInFlight < MaxInFlight
    /\ probes' = probes \cup {[init |-> FALSE]}
    /\ UNCHANGED <<pageContext, question, answer, isLoading, connectionStatus, error,
                   conversationHistory, fetches, refreshes, clock, sent>>
    /\ UNCHANGED <<browserVars, notPanel>>

\* checkBackendConnection after its await; init() then calls refreshContext.
ProbeDone(p, ok) ==
    /\ p \in probes
    /\ probes' = probes \ {p}
    /\ connectionStatus' = IF ok THEN "connected" ELSE "disconnected"
    /\ error' = IF ok THEN NoError ELSE ConnectError
    /\ refreshes' = IF p.init THEN refreshes \cup {[pc |-> "query", tab |-> NoTab]}
                              ELSE refreshes
    /\ UNCHANGED <<pageContext, question, answer, isLoading, conversationHistory,
                   fetches, clock, sent>>
    /\ UNCHANGED <<browserVars, notPanel>>

\* bindEvents: a click on Refresh; refreshContext up to chrome.tabs.query
ClickRefresh ==
    /\ PanelInFlight < MaxInFlight
    /\ refreshes' = refreshes \cup {[pc |-> "query", tab |-> NoTab]}
    /\ UNCHANGED <<pageContext, question, answer, isLoading, connectionStatus, error,
                   conversationHistory, fetches, probes, clock, sent>>
    /\ UNCHANGED <<browserVars, notPanel>>

\* refreshContext: chrome.tabs.query has answered with the active tab.
RefreshGotTab(r) ==
    /\ r \in refreshes
    /\ r.pc = "query"
    /\ refreshes' = (refreshes \ {r}) \cup {[r EXCEPT !.pc = "script", !.tab = activeTab]}
    /\ UNCHANGED <<pageContext, question, answer, isLoading, connectionStatus, error,
                   conversationHistory, fetches, probes, clock, sent>>
    /\ UNCHANGED <<browserVars, notPanel>>

\* What chrome.scripting.executeScript gives refreshContext: it rejects on a
\* privileged page (or when the tab is gone); otherwise the injected
\* extractPageContext returns a context, or null from its own catch.
ScriptOutcomes == {"context", "null", "rejects"}
ScriptResult(t, outcome) ==
    IF outcome = "rejects" \/ IsPrivileged(page[t]) THEN [rejected |-> TRUE]
    ELSE IF outcome = "null" THEN [rejected |-> FALSE, result |-> Null]
    ELSE [rejected |-> FALSE, result |-> ExtractPageContext(t)]

\* refreshContext after the await, had a failure dropped the snapshot held
refreshContextStoreClears(res) ==
    IF ~res.rejected /\ res.result # Null THEN res.result ELSE Null

\* refreshContext after await chrome.scripting.executeScript
refreshContextStore(res) ==
    IF ~res.rejected /\ res.result # Null THEN res.result ELSE pageContext

RefreshResume(r, outcome) ==
    /\ r \in refreshes
    /\ r.pc = "script"
    /\ refreshes' = refreshes \ {r}
    /\ LET res == ScriptResult(r.tab, outcome) IN
         /\ pageContext' = refreshContextStore(res)
         /\ error' = IF res.rejected THEN ExtractError ELSE error
    /\ UNCHANGED <<question, answer, isLoading, connectionStatus,
                   conversationHistory, fetches, probes, clock, sent>>
    /\ UNCHANGED <<browserVars, notPanel>>

NextPanel ==
    \/ \E t \in Tabs : TabSwitched(t)
    \/ \E t \in Tabs : PageLoaded(t)
    \/ \E q \in QuestionTexts : TypeQuestion(q)
    \/ ClickSubmit
    \/ CtrlEnter
    \/ \E r \in fetches : FetchOk(r)
    \/ \E r \in fetches : FetchFails(r)
    \/ ClearHistory
    \/ RetryConnection
    \/ \E p \in probes, ok \in BOOLEAN : ProbeDone(p, ok)
    \/ ClickRefresh
    \/ \E r \in refreshes : RefreshGotTab(r)
    \/ \E r \in refreshes, o \in ScriptOutcomes : RefreshResume(r, o)

\* ------------------------------------------------------------------ the backend
\* String.prototype.includes
Includes(s, k) == \E i \in 1..(Len(s) - Len(k) + 1) : SubSeq(s, i, i + Len(k) - 1) = k

UpperCase == "ABCDEFGHIJKLMNOPQRSTUVWXYZ"
LowerCase == "abcdefghijklmnopqrstuvwxyz"
LowerChar(c) ==
    IF \E i \in 1..Len(UpperCase) : SubSeq(UpperCase, i, i) = c
      THEN LET i == CHOOSE j \in 1..Len(UpperCase) : SubSeq(UpperCase, j, j) = c
           IN SubSeq(LowerCase, i, i)
      ELSE c

\* String.prototype.toLowerCase
RECURSIVE ToLowerCase(_)
ToLowerCase(s) == IF s = "" THEN "" ELSE LowerChar(Head(s)) \o ToLowerCase(Tail(s))

\* Array.prototype.join
RECURSIVE Join(_, _)
Join(texts, sep) ==
    IF Len(texts) = 0 THEN ""
    ELSE IF Len(texts) = 1 THEN texts[1]
    ELSE texts[1] \o sep \o Join(Tail(texts), sep)

\* context.f || dflt, for a field the request may lack
Field(ctx, f, dflt) == IF f \in DOMAIN ctx THEN ctx[f] ELSE dflt

\* A heading is {level, text}; the panel's extractor sends bare strings, for
\* which h.text is undefined.
HasText(h) == "text" \in DOMAIN h
TextOf(h) == IF HasText(h) THEN h.text ELSE "undefined"
Quoted(t) == "\"" \o t \o "\""

Ok(v) == [ok |-> TRUE, value |-> v]
Thrown == [ok |-> FALSE]

\* getPageType
getPageType(context) ==
    LET title == ToLowerCase(Field(context, "title", ""))
        url == ToLowerCase(Field(context, "url", ""))
        headings == Field(context, "headings", <<>>)
    IN
    IF Includes(url, "docs") \/ Includes(url, "documentation") THEN Ok("a documentation page")
    ELSE IF Includes(url, "api") THEN Ok("an API reference page")
    ELSE IF Includes(url, "blog") \/ Includes(url, "article") THEN Ok("a blog post or article")
    ELSE IF Includes(url, "shop") \/ Includes(url, "store") \/ Includes(url, "buy")
      THEN Ok("an e-commerce page")
    ELSE IF Includes(url, "login") \/ Includes(url, "signup")
      THEN Ok("a login or registration page")
    ELSE IF Includes(title, "home") \/ url = "/" \/ Includes(url, "index") THEN Ok("a homepage")
    ELSE IF \E i \in 1..Len(headings) : ~HasText(headings[i]) THEN Thrown
    ELSE LET headingText ==
               Join([i \in 1..Len(headings) |-> ToLowerCase(headings[i].text)], " ")
         IN
         IF Includes(headingText, "tutorial") \/ Includes(headingText, "guide")
           THEN Ok("a tutorial or guide")
         ELSE IF Includes(headingText, "about") THEN Ok("an about page")
         ELSE IF Includes(headingText, "contact") THEN Ok("a contact page")
         ELSE Ok("a web page")

\* analyzeSelectedText
analyzeSelectedText(text) ==
    IF Len(text) < 10 THEN "a short phrase or keyword"
    ELSE IF Len(text) > 200 THEN "a longer passage of text"
    ELSE IF Includes(text, "API") \/ Includes(text, "function") \/ Includes(text, "code")
      THEN "technical content related to programming or APIs"
    ELSE IF Includes(text, "$") \/ Includes(text, "price") \/ Includes(text, "cost")
      THEN "pricing or cost information"
    ELSE "important content you highlighted"

IsButton(a) == a.type = "button"
IsLink(a) == a.type = "link"
IsHelpful(a) ==
    LET t == ToLowerCase(a.text) IN
    Includes(t, "help") \/ Includes(t, "support") \/ Includes(t, "guide") \/ Includes(t, "tutorial")
IsHelpHeading(h) ==
    LET t == ToLowerCase(h.text) IN Includes(t, "help") \/ Includes(t, "guide")
QuotedTexts(xs) == Join([i \in 1..Len(xs) |-> Quoted(TextOf(xs[i]))], ", ")

\* the keyword classes, had the heading test come before the title test
questionClassHeadingFirst(qtext, context) ==
    LET q == ToLowerCase(qtext) IN
    IF Includes(q, "what") /\ Includes(q, "page") THEN "page"
    ELSE IF Includes(q, "heading") \/ Includes(q, "section") THEN "heading"
    ELSE IF Includes(q, "title") THEN "title"
    ELSE IF Includes(q, "url") \/ Includes(q, "link") THEN "url"
    ELSE IF Includes(q, "button") \/ Includes(q, "click") \/ Includes(q, "action") THEN "action"
    ELSE IF Field(context, "selected_text", "") # ""
            /\ (Includes(q, "selected") \/ Includes(q, "highlight")) THEN "selection"
    ELSE IF Includes(q, "summary") \/ Includes(q, "about") THEN "summary"
    ELSE IF Includes(q, "help") \/ Includes(q, "how") THEN "help"
    ELSE "generic"

\* the keyword classes, had the selection test not looked at the selected text
questionClassSelectionAlways(qtext, context) ==
    LET q == ToLowerCase(qtext) IN
    IF Includes(q, "what") /\ Includes(q, "page") THEN "page"
    ELSE IF Includes(q, "title") THEN "title"
    ELSE IF Includes(q, "url") \/ Includes(q, "link") THEN "url"
    ELSE IF Includes(q, "heading") \/ Includes(q, "section") THEN "heading"
    ELSE IF Includes(q, "button") \/ Includes(q, "click") \/ Includes(q, "action") THEN "action"
    ELSE IF Includes(q, "selected") \/ Includes(q, "highlight") THEN "selection"
    ELSE IF Includes(q, "summary") \/ Includes(q, "about") THEN "summary"
    ELSE IF Includes(q, "help") \/ Includes(q, "how") THEN "help"
    ELSE "generic"

\* generateContextualAnswer: the keyword class of the question
questionClass(qtext, context) ==
    LET q == ToLowerCase(qtext) IN
    IF Includes(q, "what") /\ Includes(q, "page") THEN "page"
    ELSE IF Includes(q, "title") THEN "title"
    ELSE IF Includes(q, "url") \/ Includes(q, "link") THEN "url"
    ELSE IF Includes(q, "heading") \/ Includes(q, "section") THEN "heading"
    ELSE IF Includes(q, "button") \/ Includes(q, "click") \/ Includes(q, "action") THEN "action"
    ELSE IF Field(context, "selected_text", "") # ""
            /\ (Includes(q, "selected") \/ Includes(q, "highlight")) THEN "selection"
    ELSE IF Includes(q, "summary") \/ Includes(q, "about") THEN "summary"
    ELSE IF Includes(q, "help") \/ Includes(q, "how") THEN "help"
    ELSE "generic"

\* generateContextualAnswer: Ok(the answer), or Thrown when it throws a TypeError
generateContextualAnswer(qtext, context) ==
    LET title == Field(context, "title", "")
        url == Field(context, "url", "")
        headings == Field(context, "headings", <<>>)
        actions == Field(context, "actions", <<>>)
        selectedText == Field(context, "selected_text", "")
        metaDescription == Field(context, "meta_description", "")
        class == questionClass(qtext, context)
        nH == ToString(Len(headings))
        nA == ToString(Len(actions))
        untexted == \E i \in 1..Len(headings) : ~HasText(headings[i])
    IN
    CASE class = "page" ->
           LET pt == getPageType(context) IN
           IF ~pt.ok THEN Thrown
           ELSE Ok("This page is titled " \o Quoted(title) \o " and appears to be " \o pt.value
                   \o ". "
                   \o (IF metaDescription # ""
                         THEN "The page description states: " \o Quoted(metaDescription) \o ". "
                         ELSE "")
                   \o "It contains " \o nH \o " main headings and " \o nA
                   \o " interactive elements like buttons and links.")
      [] class = "title" ->
           Ok("The page title is " \o Quoted(title)
              \o ". This gives us insight into the main topic or purpose of the page.")
      [] class = "url" ->
           Ok("The current page URL is: " \o url \o ". "
              \o (IF Len(actions) > 0
                    THEN "The page also contains " \o nA
                         \o " clickable elements including buttons and links."
                    ELSE ""))
      [] class = "heading" ->
           IF Len(headings) > 0
             THEN Ok("The page has " \o nH \o " main headings. The first few are: "
                     \o QuotedTexts(Slice0(headings, 5))
                     \o ". These headings help organize the content into different sections.")
             ELSE Ok("This page doesn't appear to have clear section headings, which might indicate it's a simple page or uses a different content structure.")
      [] class = "action" ->
           IF Len(actions) > 0
             THEN LET buttonActions == Slice0(SelectSeq(actions, IsButton), 3)
                      linkActions == Slice0(SelectSeq(actions, IsLink), 3)
                  IN Ok("The page has " \o nA \o " interactive elements. "
                        \o (IF Len(buttonActions) > 0
                              THEN "Buttons include: " \o QuotedTexts(buttonActions) \o ". "
                              ELSE "")
                        \o (IF Len(linkActions) > 0
                              THEN "Links include: " \o QuotedTexts(linkActions) \o "."
                              ELSE ""))
             ELSE Ok("This page doesn't appear to have many interactive buttons or clickable elements. It might be primarily informational content.")
      [] class = "selection" ->
           Ok("You have selected the text: " \o Quoted(selectedText) \o ". This appears to be "
              \o analyzeSelectedText(selectedText)
              \o ". Would you like me to explain this content in more detail?")
      [] class = "summary" ->
           LET pt == getPageType(context) IN
           IF ~pt.ok \/ (\E i \in 1..Len(Slice0(headings, 3)) : ~HasText(headings[i]))
             THEN Thrown
             ELSE Ok("Based on the page context, this appears to be " \o pt.value \o " titled "
                     \o Quoted(title) \o ". "
                     \o (IF metaDescription # "" THEN metaDescription
                         ELSE "The page contains organized content with multiple sections and interactive elements.")
                     \o " "
                     \o (IF Len(headings) > 0
                           THEN "The main topics covered include sections on "
                                \o Join([i \in 1..Len(Slice0(headings, 3)) |->
                                           ToLowerCase(headings[i].text)], ", ")
                                \o "."
                           ELSE ""))
      [] class = "help" ->
           LET helpfulActions == SelectSeq(actions, IsHelpful) IN
           IF Len(actions) > 0 /\ Len(helpfulActions) > 0
             THEN Ok("For help with this page, you can try clicking on: "
                     \o QuotedTexts(helpfulActions) \o ". The page also has " \o nA
                     \o " total interactive elements that might provide additional assistance.")
           ELSE IF untexted THEN Thrown
           ELSE LET helpHeadings == QuotedTexts(SelectSeq(headings, IsHelpHeading)) IN
                Ok("To get help with this page content, look for sections titled "
                   \o (IF helpHeadings # "" THEN helpHeadings ELSE "help or support") \o ". "
                   \o (IF Len(actions) > 0
                         THEN "You can also try the " \o nA \o " interactive elements on the page."
                         ELSE ""))
      [] OTHER ->
           Ok("Based on the page " \o Quoted(title) \o ", I can see " \o nH
              \o " main sections and " \o nA \o " interactive elements. "
              \o (IF selectedText # "" THEN "You've selected: " \o Quoted(selectedText) \o ". "
                  ELSE "")
              \o "Could you be more specific about what you'd like to know about this page? I can help explain the content, navigation options, or specific sections.")

\* generateAIResponse: the statements of the try block before the await throw a
\* TypeError when the context lacks the arrays they read.
promptThrows(context) ==
    \/ "headings" \notin DOMAIN context
    \/ "actions" \notin DOMAIN context
    \/ "forms" \notin DOMAIN context

\* the catch block, had it answered with a fixed apology
generateAIResponseCatchApology(qtext, context) ==
    Ok("I couldn't generate a response. Please try again.")

\* generateAIResponse: the catch block
generateAIResponseCatch(qtext, context) == generateContextualAnswer(qtext, context)

RemoteContent == "This page documents the API."
RemoteOutcomes == {"content", "empty", "fails"}

\* generateAIResponse after the await, for each outcome of the OpenAI call
generateAIResponseResume(qtext, context, outcome) ==
    IF outcome = "content" THEN Ok(RemoteContent)
    ELSE IF outcome = "empty" THEN Ok("I couldn't generate a response. Please try again.")
    ELSE generateAIResponseCatch(qtext, context)

\* POST /api/ask: the response for what generateAIResponse returned or threw
askResponse(context, result) ==
    IF result.ok
      THEN [status |-> 200, answer |-> result.value,
            contextUsed |-> [headingsCount |-> Len(Field(context, "headings", <<>>)),
                             actionsCount |-> Len(Field(context, "actions", <<>>)),
                             hasSelectedText |-> Field(context, "selected_text", "") # ""]]
      ELSE [status |-> 500, error |-> "Internal server error"]

\* The requests the model sends.
H(l, t) == [level |-> l, text |-> t]
S(t) == [string |-> t]
A(t, k) == [text |-> t, type |-> k]
AskHeadingLists ==
    {<<>>, <<H(1, "Getting Started")>>, <<S("Getting Started")>>,
     <<H(1, "Intro"), H(2, "User Guide")>>,
     <<H(1, "One"), H(2, "Two"), H(2, "Three"), H(3, "Four"), H(2, "Five"), H(2, "Six")>>}
AskActionLists == {<<>>, <<A("Sign Up", "button")>>, <<A("Help Center", "link"), A("Buy now", "button")>>}
AskContexts ==
    {[title |-> t, url |-> u, meta_description |-> "", headings |-> hs, actions |-> as,
      forms |-> <<>>, selected_text |-> st] :
        t \in {"", "Docs"}, u \in {"https://site.test/docs", "https://site.test/item"},
        hs \in AskHeadingLists, as \in AskActionLists, st \in {"", "API keys are secret"}}
      \cup {[title |-> "Docs", url |-> "https://site.test/item"]}
AskQuestions ==
    {"", "  ", "What is this page?", "What is the title of the heading?",
     "Which sections are there?", "What is this about?", "How do I get help?",
     "What did I highlight?", "hello", "Where does this link go?",
     "Which button should I click?", "What does the first section cover?",
     "What is the selected text about?", "How do I copy the highlight?"}
AskBodies ==
    {[question |-> q, context |-> c] : q \in AskQuestions, c \in AskContexts}
      \cup {[question |-> q] : q \in AskQuestions}
      \cup {[context |-> c] : c \in AskContexts}

InitAsk ==
    /\ analyzeBody = Null
    /\ analyzeRes = Null
    /\ askPc = "idle"
    /\ askBody = Null
    /\ askRemote = "none"
    /\ askRemoteCalls = 0
    /\ askFallbackCalls = 0
    /\ askAnswer = Null
    /\ askRes = Null

\* the two tests of the handler, had the context been tested first
askRejectionContextFirst(body) ==
    IF "context" \notin DOMAIN body
      THEN [status |-> 400, error |-> "Context is required"]
    ELSE IF "question" \notin DOMAIN body \/ Trim(body.question) = ""
      THEN [status |-> 400, error |-> "Question is required"]
    ELSE Null

\* POST /api/ask: the 400 response of the two tests on req.body, or Null
askRejection(body) ==
    IF "question" \notin DOMAIN body \/ Trim(body.question) = ""
      THEN [status |-> 400, error |-> "Question is required"]
    ELSE IF "context" \notin DOMAIN body
      THEN [status |-> 400, error |-> "Context is required"]
    ELSE Null

\* POST /api/ask up to the await of the OpenAI call
AskPost(body) ==
    /\ askPc = "idle"
    /\ askBody' = body
    /\ IF askRejection(body) # Null
         THEN /\ askRes' = askRejection(body)
              /\ askPc' = "done"
              /\ UNCHANGED <<askRemote, askRemoteCalls, askFallbackCalls, askAnswer>>
       ELSE IF promptThrows(body.context)
         THEN /\ askAnswer' = generateAIResponseCatch(body.question, body.context)
              /\ askRes' = askResponse(body.context, askAnswer')
              /\ askFallbackCalls' = askFallbackCalls + 1
              /\ askPc' = "done"
              /\ UNCHANGED <<askRemote, askRemoteCalls>>
       ELSE /\ askPc' = "remote"
            /\ askRemoteCalls' = askRemoteCalls + 1
            /\ UNCHANGED <<askRemote, askFallbackCalls, askAnswer, askRes>>
    /\ UNCHANGED <<analyzeBody, analyzeRes>>
    /\ UNCHANGED notAsk

\* POST /api/ask after the await: the OpenAI call has returned or failed.
AskRemoteReturns(outcome) ==
    /\ askPc = "remote"
    /\ askRemote' = outcome
    /\ askFallbackCalls' = IF outcome = "fails" THEN askFallbackCalls + 1 ELSE askFallbackCalls
    /\ UNCHANGED askRemoteCalls
    /\ askAnswer' = generateAIResponseResume(askBody.question, askBody.context, outcome)
    /\ askRes' = askResponse(askBody.context, askAnswer')
    /\ askPc' = "done"
    /\ UNCHANGED askBody
    /\ UNCHANGED <<analyzeBody, analyzeRes>>
    /\ UNCHANGED notAsk

\* The client has its response; the next request may come.
AskFinished ==
    /\ askPc = "done"
    /\ askPc' = "idle"
    /\ askBody' = Null
    /\ askRemote' = "none"
    /\ askRemoteCalls' = 0
    /\ askFallbackCalls' = 0
    /\ askAnswer' = Null
    /\ askRes' = Null
    /\ UNCHANGED <<analyzeBody, analyzeRes>>
    /\ UNCHANGED notAsk

NextAsk ==
    \/ \E b \in AskBodies : AskPost(b)
    \/ \E o \in RemoteOutcomes : AskRemoteReturns(o)
    \/ AskFinished

\* ------------------------------------------------------------------ the extractors
\* The caps the three extractors share.
HeadingLimit == 10
ActionLimit == 20
FormLimit == 5
ActionTextLimit == 50
HeadingTextLimit == 200

\* The documents of the model: up to these many elements of each kind.
MaxDomHeadings == 12
MaxDomActions == 22
MaxDomForms == 7

RECURSIVE Repeat(_, _)
Repeat(s, n) == IF n = 0 THEN "" ELSE s \o Repeat(s, n - 1)

\* The text of the i-th element of a document, for each way of filling it.
TextPatterns == {"plain", "blank", "mixed", "long"}
DomText(pattern, i) ==
    CASE pattern = "plain" -> " Item " \o ToString(i) \o " "
      [] pattern = "blank" -> "   "
      [] pattern = "mixed" -> (IF i % 3 = 1 THEN "" ELSE IF i % 3 = 2 THEN " ok " ELSE "Read more")
      [] OTHER -> Repeat("0123456789", 21)

DomHeading(pattern, i) == [level |-> 1 + (i % 6), textContent |-> DomText(pattern, i)]
\* button, a[href] and input[type="submit"] elements by turns
DomAction(pattern, i) ==
    [tagName |-> (IF i % 3 = 0 THEN "BUTTON" ELSE IF i % 3 = 1 THEN "A" ELSE "INPUT"),
     textContent |-> (IF i % 3 = 2 THEN "" ELSE DomText(pattern, i)),
     value |-> (IF i % 3 = 2 THEN DomText(pattern, i) ELSE ""),
     ariaLabel |-> (IF i % 2 = 0 THEN "Close" ELSE "")]
DomForm(i) == [action |-> "", method |-> "", inputs |-> <<>>]

Dom(nh, hp, na, ap, nf) ==
    [headings |-> [i \in 1..nh |-> DomHeading(hp, i)],
     actions |-> [i \in 1..na |-> DomAction(ap, i)],
     forms |-> [i \in 1..nf |-> DomForm(i)]]
Doms ==
    {Dom(nh, hp, na, ap, nf) :
        nh \in 0..MaxDomHeadings, hp \in TextPatterns,
        na \in 0..MaxDomActions, ap \in TextPatterns, nf \in 0..MaxDomForms}

\* a || b on strings
OrElse(a, b) == IF a # "" THEN a ELSE b

DocTitle == "Docs"
DocUrl == "https://site.test/item"

\* content.js extractPageContext
contentHeading(h) == [level |-> h.level, text |-> Trim(h.textContent)]
contentHeadingKept(h) == Len(h.text) > 0 /\ Len(h.text) < HeadingTextLimit
contentAction(el) ==
    [text |-> Slice0(Trim(OrElse(el.textContent, OrElse(el.value, el.ariaLabel))),
                     ActionTextLimit),
     type |-> (IF el.tagName \in {"BUTTON", "INPUT"} THEN "button" ELSE "link")]
contentActionKept(a) == Len(a.text) > 0 /\ Len(a.text) > 2
contentForm(f) ==
    [action |-> OrElse(f.action, DocUrl), method |-> OrElse(f.method, "GET"),
     inputs |-> f.inputs]
contentExtractPageContext(d) ==
    LET hs == Slice0(d.headings, HeadingLimit)
        as == Slice0(d.actions, ActionLimit)
        fs == Slice0(d.forms, FormLimit)
    IN
    [title |-> DocTitle, url |-> DocUrl, meta_description |-> "",
     headings |-> SelectSeq([i \in 1..Len(hs) |-> contentHeading(hs[i])], contentHeadingKept),
     actions |-> SelectSeq([i \in 1..Len(as) |-> contentAction(as[i])], contentActionKept),
     forms |-> [i \in 1..Len(fs) |-> contentForm(fs[i])],
     selected_text |-> ""]

\* background.js and sidepanel.js select button, a[href], [role="button"] only
IsNoInput(el) == el.tagName # "INPUT"
\* the filter on the mapped texts, had it kept every element
AnyText(x) == Len(x.text) >= 0
NonEmptyText(x) == Len(x.text) > 0

\* background.js: the extractPageContext that extractContextFromTab injects
injectedAction(el) ==
    [text |-> Slice0(Trim(OrElse(el.textContent, el.ariaLabel)), ActionTextLimit),
     type |-> (IF el.tagName = "BUTTON" THEN "button" ELSE "link")]
injectedExtractPageContext(d) ==
    LET hs == Slice0(d.headings, HeadingLimit)
        as == Slice0(SelectSeq(d.actions, IsNoInput), ActionLimit)
        fs == Slice0(d.forms, FormLimit)
    IN
    [title |-> DocTitle, url |-> DocUrl, meta_description |-> "",
     headings |-> SelectSeq([i \in 1..Len(hs) |-> contentHeading(hs[i])], NonEmptyText),
     actions |-> SelectSeq([i \in 1..Len(as) |-> injectedAction(as[i])], NonEmptyText),
     forms |-> [i \in 1..Len(fs) |-> contentForm(fs[i])],
     selected_text |-> ""]

\* sidepanel.js extractPageContext: a heading is its trimmed text, a bare string
panelHeading(h) == S(Trim(h.textContent))
panelHeadingKept(h) == Len(h.string) > 0
panelAction(el) ==
    [text |-> Slice0(Trim(el.textContent), ActionTextLimit),
     type |-> (IF el.tagName = "BUTTON" THEN "button" ELSE "link")]
panelForm(f) == [action |-> f.action, method |-> f.method, inputs |-> f.inputs]
panelExtractPageContext(d) ==
    LET hs == Slice0(d.headings, HeadingLimit)
        as == Slice0(SelectSeq(d.actions, IsNoInput), ActionLimit)
        fs == Slice0(d.forms, FormLimit)
    IN
    [title |-> DocTitle, url |-> DocUrl, meta_description |-> "",
     headings |-> SelectSeq([i \in 1..Len(hs) |-> panelHeading(hs[i])], panelHeadingKept),
     actions |-> SelectSeq([i \in 1..Len(as) |-> panelAction(as[i])], NonEmptyText),
     selected_text |-> "",
     forms |-> [i \in 1..Len(fs) |-> panelForm(fs[i])]]

\* error.message of an error thrown while the document is read
DomError == "Error thrown while reading the document"

\* The entry points of extraction, each run once on the document.  r is what the extractor did, Ok(context)
\* or Thrown; the value is what the entry point hands to its host, Ok(...) when
\* it returns and Thrown when the error leaves it.
\* content.js: the onMessage handler of 'extractContext'
contentOnExtractContext(r) ==
    IF r.ok THEN Ok(Success(r.value)) ELSE Ok(Failure(DomError))
\* autoExtractContext, had it no try block
autoExtractContextNoCatch(r) ==
    IF r.ok THEN Ok([action |-> "contextExtracted", context |-> r.value]) ELSE Thrown
\* content.js: autoExtractContext; the value is the message sent, or Null
autoExtractContext(r) ==
    IF r.ok THEN Ok([action |-> "contextExtracted", context |-> r.value]) ELSE Ok(Null)
\* background.js: case 'extractContext'; the injected function has no try
\* block, executeScript rejects and the .catch of the handler replies
backgroundOnExtractContext(r) ==
    IF r.ok THEN Ok(Success(r.value)) ELSE Ok(Failure(ScriptRejection))
\* sidepanel.js: extractPageContext returns null from its catch
panelExtractPageContextTry(r) ==
    IF r.ok THEN Ok(r.value) ELSE Ok(Null)

InitExt ==
    /\ dom = Dom(0, "plain", 0, "plain", 0)
    /\ snapshot = Null

\* content.js: 'extractContext' arrives; extractPageContext runs in the document
ContentExtract(fault) ==
    /\ snapshot = Null
    /\ LET r == IF fault THEN Thrown ELSE Ok(contentExtractPageContext(dom)) IN
       snapshot' = [by |-> "content", context |-> IF r.ok THEN r.value ELSE Null,
                    handed |-> contentOnExtractContext(r)]
    /\ UNCHANGED dom
    /\ UNCHANGED notExt

\* content.js: the page-load timer fires; extractPageContext runs in the document
AutoExtract(fault) ==
    /\ snapshot = Null
    /\ LET r == IF fault THEN Thrown ELSE Ok(contentExtractPageContext(dom)) IN
       snapshot' = [by |-> "auto", context |-> IF r.ok THEN r.value ELSE Null,
                    handed |-> autoExtractContext(r)]
    /\ UNCHANGED dom
    /\ UNCHANGED notExt

\* background.js: the injected extractPageContext runs in the document
InjectedExtract(fault) ==
    /\ snapshot = Null
    /\ LET r == IF fault THEN Thrown ELSE Ok(injectedExtractPageContext(dom)) IN
       snapshot' = [by |-> "injected", context |-> IF r.ok THEN r.value ELSE Null,
                    handed |-> backgroundOnExtractContext(r)]
    /\ UNCHANGED dom
    /\ UNCHANGED notExt

\* sidepanel.js: the injected extractPageContext runs in the document
PanelExtract(fault) ==
    /\ snapshot = Null
    /\ LET r == IF fault THEN Thrown ELSE Ok(panelExtractPageContext(dom)) IN
       snapshot' = [by |-> "panel", context |-> IF r.ok THEN r.value ELSE Null,
                    handed |-> panelExtractPageContextTry(r)]
    /\ UNCHANGED dom
    /\ UNCHANGED notExt

NextExtract ==
    \/ \E fault \in BOOLEAN : ContentExtract(fault)
    \/ \E fault \in BOOLEAN : AutoExtract(fault)
    \/ \E fault \in BOOLEAN : InjectedExtract(fault)
    \/ \E fault \in BOOLEAN : PanelExtract(fault)

\* analyzePageContext: Ok(the analysis), or Thrown when getPageType throws
Level(n, mediumAbove, highAbove) ==
    IF n > highAbove THEN "high" ELSE IF n > mediumAbove THEN "medium" ELSE "low"
analyzePageContext(context) ==
    LET pt == getPageType(context)
        nH == Len(Field(context, "headings", <<>>))
        nA == Len(Field(context, "actions", <<>>))
        nF == Len(Field(context, "forms", <<>>))
    IN
    IF ~pt.ok THEN Thrown
    ELSE Ok([pageType |-> pt.value,
             complexity |-> Level(nH, 2, 5),
             interactivity |-> Level(nA, 3, 10),
             hasSelectedContent |-> Field(context, "selected_text", "") # "",
             contentStructure |-> [headings |-> nH, actions |-> nA, forms |-> nF]])

\* generateContextSuggestions
generateContextSuggestions(context) ==
    LET headings == Field(context, "headings", <<>>)
        actions == Field(context, "actions", <<>>)
        selectedText == Field(context, "selected_text", "")
        suggestions ==
          (IF Len(headings) > 0
             THEN <<"What does the " \o Quoted(TextOf(headings[1])) \o " section cover?">>
             ELSE <<>>)
          \o (IF Len(actions) > 0
                THEN <<"What happens when I click " \o Quoted(actions[1].text) \o "?">>
                ELSE <<>>)
          \o (IF selectedText # ""
                THEN <<"Explain the selected text: \"" \o Slice0(selectedText, 50) \o "...\"">>
                ELSE <<>>)
          \o <<"What is this page about?", "How do I navigate this page?">>
    IN Slice0(suggestions, 5)

\* The requests the model sends to /api/analyze-context: contexts of every
\* heading count and action count a snapshot can have, in either heading shape.
AnalyzeHeading(shape, i) ==
    IF shape = "object" THEN H(1 + (i % 6), "Heading " \o ToString(i))
                        ELSE S("Heading " \o ToString(i))
AnalyzeContexts ==
    {[title |-> "Docs", url |-> u, meta_description |-> "",
      headings |-> [i \in 1..n |-> AnalyzeHeading(shape, i)],
      actions |-> [i \in 1..m |-> A("Action " \o ToString(i), "link")],
      forms |-> <<>>, selected_text |-> st] :
        u \in {"https://site.test/docs", "https://site.test/item"},
        n \in 0..HeadingLimit, m \in 0..ActionLimit, shape \in {"object", "string"},
        st \in {"", "API keys", Repeat("0123456789", 6)}}
      \cup {[title |-> "Docs", url |-> "https://site.test/item"]}
AnalyzeBodies == {[context |-> c] : c \in AnalyzeContexts} \cup {[question |-> "hello"]}

\* POST /api/analyze-context
AnalyzePost(body) ==
    /\ analyzeRes = Null
    /\ analyzeBody' = body
    /\ IF "context" \notin DOMAIN body
         THEN analyzeRes' = [status |-> 400, error |-> "Context is required"]
         ELSE LET analysis == analyzePageContext(body.context) IN
              IF analysis.ok
                THEN analyzeRes' = [status |-> 200, analysis |-> analysis.value,
                                    suggestions |-> generateContextSuggestions(body.context)]
                ELSE analyzeRes' = [status |-> 500, error |-> "Analysis failed"]
    /\ UNCHANGED <<askPc, askBody, askRemote, askRemoteCalls, askFallbackCalls, askAnswer, askRes>>
    /\ UNCHANGED notAsk

\* The client has its response; the next request may come.
AnalyzeFinished ==
    /\ analyzeRes # Null
    /\ analyzeBody' = Null
    /\ analyzeRes' = Null
    /\ UNCHANGED <<askPc, askBody, askRemote, askRemoteCalls, askFallbackCalls, askAnswer, askRes>>
    /\ UNCHANGED notAsk

NextAnalyze ==
    \/ \E b \in AnalyzeBodies : AnalyzePost(b)
    \/ AnalyzeFinished

InitProgram ==
    /\ activeTab = 1
    /\ openTabs = Tabs
    /\ page = [t \in Tabs |-> Url(t, 0, "https")]
    /\ sel = [t \in Tabs |-> ""]
    /\ autoTimer = [t \in Tabs |-> TRUE]
    /\ selTimer = [t \in Tabs |-> 0]
    /\ currentContext = Null
    /\ currentTabId = NoTab
    /\ activating = <<>>
    /\ calls = {}
    /\ msgs = {}
    /\ lastRead = Null
    /\ lastReply = Null
    /\ lastEvent = [kind |-> "none", pushed |-> FALSE]
    /\ InitPanel
    /\ InitAsk

Init == InitProgram /\ InitExt

Next ==
    \/ \E t \in Tabs : OnActivated(t)
    \/ \E i \in 1..Len(activating) : OnActivatedResume(i)
    \/ \E t \in Tabs, s \in Schemes : OnUpdated(t, s)
    \/ \E t \in Tabs, ok \in BOOLEAN : AutoExtractContext(t, ok)
    \/ \E t \in Tabs, s \in SelTexts : SelectionChange(t, s)
    \/ \E t \in Tabs : SelectionTimer(t)
    \/ \E m \in msgs : HandleContextExtracted(m)
    \/ \E m \in msgs : HandleSelectionChanged(m)
    \/ GetContext
    \/ \E s \in Tabs \cup {NoTab} : ExtractContext(s)
    \/ \E c \in calls : ExtractGotTab(c)
    \/ \E c \in calls, o \in ScriptOutcomes : ExtractScriptRuns(c, o)
    \/ \E c \in calls : ExtractResume(c)
    \/ ReadReceived
    \/ ReplyReceived

Spec == Init /\ [][Next]_vars

\* The user closes tab t. background.js registers no chrome.tabs.onRemoved
\* listener: the coordinator is told nothing. The tab's document and its timers
\* are gone.
TabRemoved(t) ==
    /\ t \in openTabs
    /\ openTabs' = openTabs \ {t}
    /\ autoTimer' = [autoTimer EXCEPT ![t] = FALSE]
    /\ selTimer' = [selTimer EXCEPT ![t] = 0]
    /\ UNCHANGED <<activeTab, page, sel, coordVars>>
    /\ UNCHANGED notCoord

\* The coordinator with tabs being closed (the selection is left alone).
NextTabs ==
    \/ \E t \in Tabs : OnActivated(t)
    \/ \E i \in 1..Len(activating) : OnActivatedResume(i)
    \/ \E t \in Tabs, s \in Schemes : OnUpdated(t, s)
    \/ \E t \in Tabs, ok \in BOOLEAN : AutoExtractContext(t, ok)
    \/ \E m \in msgs : HandleContextExtracted(m)
    \/ GetContext
    \/ \E s \in Tabs \cup {NoTab} : ExtractContext(s)
    \/ \E c \in calls : ExtractGotTab(c)
    \/ \E c \in calls, o \in ScriptOutcomes : ExtractScriptRuns(c, o)
    \/ \E c \in calls : ExtractResume(c)
    \/ ReadReceived
    \/ ReplyReceived
    \/ \E t \in Tabs : TabRemoved(t)

SpecTabs == Init /\ [][NextTabs]_vars

SpecPanel == Init /\ [][NextPanel]_vars

\* The panel with a user who never clicks Refresh. What the panel has started
\* (a health probe, a refresh, a request) is carried on by the event loop.
NextPanelAuto ==
    \/ \E t \in Tabs : TabSwitched(t)
    \/ \E t \in Tabs : PageLoaded(t)
    \/ \E q \in QuestionTexts : TypeQuestion(q)
    \/ ClickSubmit
    \/ CtrlEnter
    \/ \E r \in fetches : FetchOk(r)
    \/ \E r \in fetches : FetchFails(r)
    \/ ClearHistory
    \/ RetryConnection
    \/ \E p \in probes, ok \in BOOLEAN : ProbeDone(p, ok)
    \/ \E r \in refreshes : RefreshGotTab(r)
    \/ \E r \in refreshes, o \in ScriptOutcomes : RefreshResume(r, o)

PanelContinues ==
    \/ \E p \in probes, ok \in BOOLEAN : ProbeDone(p, ok)
    \/ \E r \in refreshes : RefreshGotTab(r)
    \/ \E r \in refreshes, o \in ScriptOutcomes : RefreshResume(r, o)
    \/ \E r \in fetches : FetchOk(r) \/ FetchFails(r)

SpecPanelAuto == Init /\ [][NextPanelAuto]_vars /\ WF_vars(PanelContinues)

\* The coordinator's store and the panel's snapshot side by side: tab events,
\* the automatic push and its handling, and the panel's probes and refreshes.
NextStore ==
    \/ \E t \in Tabs : OnActivated(t)
    \/ \E i \in 1..Len(activating) : OnActivatedResume(i)
    \/ \E t \in Tabs, s \in Schemes : OnUpdated(t, s)
    \/ \E t \in Tabs, ok \in BOOLEAN : AutoExtractContext(t, ok)
    \/ \E m \in msgs : HandleContextExtracted(m)
    \/ \E p \in probes, ok \in BOOLEAN : ProbeDone(p, ok)
    \/ ClickRefresh
    \/ \E r \in refreshes : RefreshGotTab(r)
    \/ \E r \in refreshes, o \in ScriptOutcomes : RefreshResume(r, o)

SpecStore == Init /\ [][NextStore]_vars

SpecAsk == Init /\ [][NextAsk]_vars

SpecAnalyze == Init /\ [][NextAnalyze]_vars

\* The extractors, each run on every document of Doms.
InitExtract ==
    /\ InitProgram
    /\ dom \in Doms
    /\ snapshot = Null

SpecExtract == InitExtract /\ [][NextExtract]_vars

\* The panel after k successful submissions of one question about the page of
\* tab 1, each answered before the next was asked.
Asked == " what"
Submission(n) == [id |-> n, question |-> Asked, context |-> ExtractPageContext(1),
                  asked |-> page[1]]
HistoryAfter(k) ==
    [i \in 1..(IF k < HistoryKeep + 1 THEN k ELSE HistoryKeep + 1) |->
       [question |-> Asked, answer |-> AnswerFor(Submission(k + 1 - i)),
        timestamp |-> k + 1 - i]]

InitHistory ==
    /\ activeTab = 1
    /\ openTabs = Tabs
    /\ page = [t \in Tabs |-> Url(t, 0, "https")]
    /\ sel = [t \in Tabs |-> ""]
    /\ autoTimer = [t \in Tabs |-> TRUE]
    /\ selTimer = [t \in Tabs |-> 0]
    /\ currentContext = Null
    /\ currentTabId = NoTab
    /\ activating = <<>>
    /\ calls = {}
    /\ msgs = {}
    /\ lastRead = Null
    /\ lastReply = Null
    /\ lastEvent = [kind |-> "none", pushed |-> FALSE]
    /\ pageContext = ExtractPageContext(1)
    /\ question = ""
    /\ isLoading = FALSE
    /\ connectionStatus = "connected"
    /\ error = NoError
    /\ fetches = {}
    /\ refreshes = {}
    /\ probes = {}
    /\ sent = 0
    /\ InitAsk
    /\ InitExt
    /\ \E k \in 0..(HistoryKeep + 1) :
         /\ clock = k
         /\ answer = IF k = 0 THEN Null ELSE AnswerFor(Submission(k))
         /\ conversationHistory = HistoryAfter(k)

NextHistory ==
    \/ \E q \in QuestionTexts : TypeQuestion(q)
    \/ ClickSubmit
    \/ CtrlEnter
    \/ \E r \in fetches : FetchOk(r)
    \/ \E r \in fetches : FetchFails(r)
    \/ ClearHistory

SpecHistory == InitHistory /\ [][NextHistory]_vars

\* ------------------------------------------------------------------ claims

\* C1: an extraction result produced or requested before a tab-activation or
\* navigation-complete event and handled after it never changes the stored
\* snapshot, whether it is a pushed contextExtracted message or the result of
\* an extractContextFromTab call that was in flight.
C1_StaleResultNeverStored ==
    [][/\ \A m \in msgs :
            (m.action = "contextExtracted" /\ m.stale /\ HandleContextExtracted(m))
               => currentContext' = currentContext
       /\ \A c \in calls :
            (c.stale /\ ExtractResume(c)) => currentContext' = currentContext]_vars

\* C2: the panel never has two dispatches outstanding at once.
C2_SingleFlight == Cardinality(fetches) <= 1

\* the panel no longer shows the page the question of request r was asked on
Abandoned(r) == r.asked # page[activeTab]

\* C3: an answer that arrives after the user switched tab or navigated away
\* from the page the question was asked on does not become the displayed answer.
C3_AbandonedAnswerNotShown ==
    [][\A r \in fetches : (Abandoned(r) /\ FetchOk(r)) => answer' = answer]_vars

\* C4: right after the coordinator has received a tab-activation event, or a
\* navigation-complete event for the active tab, a read returns no snapshot:
\* the stored snapshot is absent and the current tab id is the event's tab id.
C4_AbsentAfterTabEvent ==
    [][\A t \in Tabs :
         (OnActivated(t) \/ (t = activeTab /\ \E s \in Schemes : OnUpdated(t, s)))
            => (currentContext' = Null /\ currentTabId' = t)]_vars

\* the text of a heading of a snapshot, whichever extractor made it
HeadingText(h) == IF HasText(h) THEN h.text ELSE h.string

\* C5: every snapshot an extractor returns (content.js, the extractor that
\* background.js injects, the extractor that sidepanel.js injects) has at most
\* 10 headings, at most 20 actions and at most 5 forms, and no heading or
\* action of it has an empty text, however many elements the document has.
C5_SnapshotWithinCaps ==
    (snapshot # Null /\ snapshot.context # Null) =>
      LET c == snapshot.context IN
      /\ Len(c.headings) <= HeadingLimit
      /\ Len(c.actions) <= ActionLimit
      /\ Len(c.forms) <= FormLimit
      /\ \A i \in 1..Len(c.headings) : HeadingText(c.headings[i]) # ""
      /\ \A i \in 1..Len(c.actions) : c.actions[i].text # ""

\* a document over every cap, with empty and blank texts, extracted by the panel
C5_Witness ==
    /\ snapshot # Null
    /\ snapshot.by = "panel"
    /\ snapshot.context # Null
    /\ Len(dom.headings) > HeadingLimit
    /\ Len(dom.actions) > ActionLimit
    /\ Len(dom.forms) > FormLimit
    /\ \E i \in 1..HeadingLimit : Trim(dom.headings[i].textContent) = ""
    /\ \E i \in 1..ActionLimit : Trim(dom.actions[i].textContent) = ""
    /\ Len(snapshot.context.forms) = FormLimit
    /\ Len(snapshot.context.headings) > 0
    /\ Len(snapshot.context.actions) > 0

HistoryCap == HistoryKeep + 1
Entries == {conversationHistory[i] : i \in 1..Len(conversationHistory)}
\* at most HistoryCap entries, newest first
C6_State ==
    /\ Len(conversationHistory) <= HistoryCap
    /\ \A i, j \in 1..Len(conversationHistory) :
         i < j => conversationHistory[i].timestamp >= conversationHistory[j].timestamp
\* a success prepends one entry and evicts the last of a full list; the 11th
\* success in a row evicts the 1st submission
C6_Step ==
    \A r \in fetches : FetchOk(r) =>
       /\ Len(conversationHistory') =
            (IF Len(conversationHistory) = HistoryCap THEN HistoryCap
                                                     ELSE Len(conversationHistory) + 1)
       /\ conversationHistory'[1].answer = AnswerFor(r)
       /\ \A i \in 2..Len(conversationHistory') :
            conversationHistory'[i] = conversationHistory[i - 1]
       /\ conversationHistory = HistoryAfter(HistoryCap) =>
            \A e \in Entries' : e.answer.id # 1

\* C6: the history holds at most 10 entries, newest first; a successful
\* submission prepends exactly one entry and, when the list is full, evicts
\* the last one, so that after 11 successful submissions the first element is
\* the 11th and the 1st is gone.
C6_HistoryBounded == [](C6_State) /\ [][C6_Step]_vars
C6_Witness ==
    /\ Len(conversationHistory) = HistoryCap
    /\ conversationHistory[1].answer.id = HistoryCap + 1
    /\ sent = 1

\* C7: submitting an empty or whitespace-only question sends no request and
\* changes no panel state.
C7_BlankSubmitIsNoOp ==
    [][((ClickSubmit \/ CtrlEnter) /\ Trim(question) = "") => UNCHANGED panelVars]_vars
C7_Witness ==
    /\ question = "  "
    /\ pageContext # Null
    /\ ~isLoading
    /\ sent = 0

\* C8: dispatching leaves the displayed answer and the history alone, and the
\* failure of a dispatched submit sets the error, clears the loading flag and
\* leaves the displayed answer and the history as they were.
C8_FailureLeavesAnswerAndHistory ==
    [][/\ (ClickSubmit \/ CtrlEnter) => UNCHANGED <<answer, conversationHistory>>
       /\ \A r \in fetches : FetchFails(r) =>
            /\ error' = SubmitError
            /\ ~isLoading'
            /\ UNCHANGED <<answer, conversationHistory>>]_vars
C8_Witness ==
    /\ error = SubmitError
    /\ ~isLoading
    /\ answer # Null
    /\ Len(conversationHistory) > 0
    /\ fetches = {}

\* C9: when the OpenAI call fails, what generateAIResponse yields for a
\* question and a context is what generateContextualAnswer yields when called
\* directly with the same question and context (the same string, or the same
\* TypeError where generateContextualAnswer throws).
C9_FailureYieldsFallbackAnswer ==
    (askPc = "done" /\ askRemote = "fails")
      => /\ askAnswer = generateContextualAnswer(askBody.question, askBody.context)
         /\ askAnswer.ok => askRes.answer = askAnswer.value

C9_Witness ==
    /\ askPc = "done"
    /\ askRemote = "fails"
    /\ askAnswer.ok
    /\ askRes.status = 200
    /\ Includes(askRes.answer, "appears to be a tutorial or guide")

\* C10: a request with a non-blank question and a context is answered with
\* status 200 and a non-empty answer, whatever the OpenAI call did.
C10_AlwaysAnswered ==
    (/\ askPc = "done"
     /\ "question" \in DOMAIN askBody
     /\ "context" \in DOMAIN askBody
     /\ Trim(askBody.question) # "")
      => (askRes.status = 200 /\ askRes.answer # "")

\* generateContextualAnswer ran: the OpenAI call failed, or the prompt could not
\* be built
FallbackRan == askPc = "done" /\ askAnswer # Null /\ askRemote \in {"fails", "none"}

\* C11: generateContextualAnswer is total: for every question and every
\* context it returns a non-empty string and never throws.
C11_FallbackTotal == FallbackRan => (askAnswer.ok /\ askAnswer.value # "")

\* The keyword classes in the documented order, each with the words that select
\* it and the words its answer template starts with.
ClassOrder ==
    <<"page", "title", "url", "heading", "action", "selection", "summary", "help">>
ClassMatches(class, q, context) ==
    CASE class = "page" -> Includes(q, "what") /\ Includes(q, "page")
      [] class = "title" -> Includes(q, "title")
      [] class = "url" -> Includes(q, "url") \/ Includes(q, "link")
      [] class = "heading" -> Includes(q, "heading") \/ Includes(q, "section")
      [] class = "action" ->
           Includes(q, "button") \/ Includes(q, "click") \/ Includes(q, "action")
      [] class = "selection" ->
           /\ "selected_text" \in DOMAIN context
           /\ context.selected_text # ""
           /\ (Includes(q, "selected") \/ Includes(q, "highlight"))
      [] class = "summary" -> Includes(q, "summary") \/ Includes(q, "about")
      [] OTHER -> Includes(q, "help") \/ Includes(q, "how")
FirstMatch(q, context) ==
    LET hits == {i \in 1..Len(ClassOrder) : ClassMatches(ClassOrder[i], q, context)} IN
    IF hits = {} THEN "generic"
    ELSE ClassOrder[CHOOSE i \in hits : \A j \in hits : i <= j]
TemplateStarts(class) ==
    CASE class = "page" -> {"This page is titled "}
      [] class = "title" -> {"The page title is "}
      [] class = "url" -> {"The current page URL is: "}
      [] class = "heading" -> {"The page has ", "This page doesn't appear to have clear section"}
      [] class = "action" ->
           {"The page has ", "This page doesn't appear to have many interactive"}
      [] class = "selection" -> {"You have selected the text: "}
      [] class = "summary" -> {"Based on the page context, "}
      [] class = "help" -> {"For help with this page, ", "To get help with this page content, "}
      [] OTHER -> {"Based on the page \""}
StartsWith(text, start) == Len(text) >= Len(start) /\ SubSeq(text, 1, Len(start)) = start
TemplateMiddle(class) ==
    CASE class = "heading" -> {" main headings. ", "section headings"}
      [] class = "action" -> {" interactive elements. ", "interactive buttons"}
      [] OTHER -> {""}
AnswerIsOfClass(text, class) ==
    /\ \E start \in TemplateStarts(class) : StartsWith(text, start)
    /\ \E mid \in TemplateMiddle(class) : mid = "" \/ Includes(text, mid)

Min(a, b) == IF a < b THEN a ELSE b
QuotedFirstFive(hs) ==
    Join([i \in 1..Min(Len(hs), 5) |-> Quoted(HeadingText(hs[i]))], ", ")

\* C13: when the question resolves to the heading class and the context has
\* n >= 1 headings, the answer of generateContextualAnswer states n and quotes
\* the texts of the first min(n, 5) headings in order; for the question 'What
\* does the first section cover?' and the one heading 'Getting Started' it
\* states 1 and quotes 'Getting Started'.
C13_HeadingAnswerQuotesTexts ==
    (/\ FallbackRan
     /\ askAnswer.ok
     /\ FirstMatch(ToLowerCase(askBody.question), askBody.context) = "heading"
     /\ "headings" \in DOMAIN askBody.context
     /\ Len(askBody.context.headings) >= 1)
      => LET hs == askBody.context.headings IN
         /\ StartsWith(askAnswer.value,
                       "The page has " \o ToString(Len(hs)) \o " main headings. ")
         /\ Includes(askAnswer.value, ": " \o QuotedFirstFive(hs) \o ". ")
         /\ (askBody.question = "What does the first section cover?"
                /\ Len(hs) = 1 /\ HeadingText(hs[1]) = "Getting Started")
              => Includes(askAnswer.value, "\"Getting Started\"")

\* C14: a selectionChanged message from the current tab, with a snapshot
\* stored, changes the snapshot's selected text and nothing else; from any
\* other tab, or with no current tab or no snapshot, it changes no coordinator
\* state.
C14_SelectionPatchesOnlySelectedText ==
    [][\A m \in msgs : HandleSelectionChanged(m) =>
         IF m.tab = currentTabId /\ currentContext # Null
           THEN /\ currentContext'.selected_text = m.selectedText
                /\ \A f \in DOMAIN currentContext \ {"selected_text"} :
                     currentContext'[f] = currentContext[f]
                /\ DOMAIN currentContext' = DOMAIN currentContext
                /\ UNCHANGED <<currentTabId, activating, calls, lastRead, lastReply>>
           ELSE UNCHANGED <<currentContext, currentTabId, activating, calls,
                            lastRead, lastReply>>]_vars

\* a selectionChanged message of the current tab is about to be merged into a
\* snapshot with another selected text, while one of another tab is pending too
C14_Witness ==
    /\ currentContext # Null
    /\ \E m \in msgs :
         /\ m.action = "selectionChanged"
         /\ m.tab = currentTabId
         /\ m.selectedText # currentContext.selected_text
    /\ \E m \in msgs : m.action = "selectionChanged" /\ m.tab # currentTabId

\* a getContext can be answered whatever extraction is under way
C15_NeverBlocks == (lastRead = Null /\ InFlight < MaxInFlight) => ENABLED GetContext
\* the answer is the stored snapshot, or null, and nothing else changes
C15_Step ==
    (lastRead = Null /\ lastRead' # Null) =>
       /\ lastRead' = [context |-> currentContext]
       /\ UNCHANGED <<currentContext, currentTabId, activating, calls, msgs, lastReply>>

\* C15: a getContext request is answered at once, without waiting for any
\* extraction, with the stored snapshot or null when there is none, and it
\* changes no coordinator state.
C15_ReadIsImmediateAndPure == [](C15_NeverBlocks) /\ [][C15_Step]_vars

\* a read answered with the snapshot while an extraction call is under way
C15_Witness ==
    /\ lastRead # Null
    /\ currentContext # Null
    /\ lastRead.context = currentContext
    /\ \E c \in calls : c.pc = "script"

\* C16: when the current tab is closed the coordinator discards its session:
\* the stored snapshot is dropped and the closed tab is no longer the tab whose
\* results are accepted.
C16_ClosedTabSessionDiscarded ==
    [][\A t \in Tabs :
         (TabRemoved(t) /\ t = currentTabId)
            => (currentContext' = Null /\ currentTabId' # t)]_vars

\* the messages of the other failures of an on-demand extraction
OtherExtractionErrors ==
    {"No active tab", "Failed to extract context", "No tab with id", ScriptRejection}

\* C17: an on-demand extraction for a tab showing a chrome:// or
\* chrome-extension:// page fails before any script is run in the tab: the
\* call ends there, the reply is a failure whose message differs from those of
\* the other extraction failures, the stored snapshot is unchanged and no
\* further attempt is started.
C17_PrivilegedPageFailsFast ==
    [][\A c \in calls :
         (/\ c.pc = "get"
          /\ c.tabId \in openTabs
          /\ page[c.tabId].scheme = "chrome"
          /\ ExtractGotTab(c))
            => /\ lastReply' # Null
               /\ ~lastReply'.success
               /\ lastReply'.error \notin OtherExtractionErrors
               /\ currentContext' = currentContext
               /\ calls' = calls \ {c}]_vars

\* the failure reply for a privileged page, with a snapshot stored and no call left
C17_Witness ==
    /\ lastReply = Failure("Cannot access chrome:// or extension pages")
    /\ currentContext # Null
    /\ calls = {}

\* C18: with a non-blank question and a snapshot present a submit dispatches
\* a request whatever the connection status is: by Ctrl+Enter always, by a
\* click on Ask whenever no request is loading.
C18_SubmitIgnoresConnectionStatus ==
    (/\ Trim(question) # ""
     /\ pageContext # Null
     /\ sent < MaxSubmits
     /\ PanelInFlight < MaxInFlight)
      => /\ ENABLED (CtrlEnter /\ fetches' # fetches)
         /\ ~isLoading => ENABLED (ClickSubmit /\ fetches' # fetches)

\* a request dispatched and pending while the status is disconnected
C18_Witness ==
    /\ connectionStatus = "disconnected"
    /\ probes = {}
    /\ sent = 1
    /\ isLoading
    /\ \E r \in fetches : r.context = pageContext

\* the snapshot the panel holds is of another page than the active tab shows
PanelSnapshotStale == pageContext # Null /\ pageContext.url # page[activeTab]
PanelSnapshotCurrent == pageContext # Null /\ pageContext.url = page[activeTab]

\* C19: after the active tab navigates or the user switches tab, the snapshot
\* the panel holds, and sends with the next question, eventually is that of
\* the page now shown, without a click on Refresh.
C19_PanelFollowsPage == PanelSnapshotStale ~> PanelSnapshotCurrent

\* the documented thresholds
DocumentedComplexity(n) == IF n < 3 THEN "low" ELSE IF n < 6 THEN "medium" ELSE "high"
DocumentedInteractivity(m) == IF m < 3 THEN "low" ELSE IF m <= 10 THEN "medium" ELSE "high"

\* C20: for every heading count 0..10 and action count 0..20 the analysis
\* gives complexity low under 3 headings, medium from 3 to 5, high from 6,
\* and interactivity low under 3 actions, medium from 3 to 10, high from 11.
C20_ClassifyThresholds ==
    (analyzeRes # Null /\ analyzeRes.status = 200 /\ "headings" \in DOMAIN analyzeBody.context)
      => LET c == analyzeBody.context IN
         /\ analyzeRes.analysis.complexity = DocumentedComplexity(Len(c.headings))
         /\ analyzeRes.analysis.interactivity = DocumentedInteractivity(Len(c.actions))

\* the questions a snapshot calls for, as the contract lists them
AnalyzedOk == analyzeRes # Null /\ analyzeRes.status = 200
HeadingQuestions(c) ==
    IF Len(Field(c, "headings", <<>>)) > 0 THEN 1 ELSE 0
ActionQuestions(c) ==
    IF Len(Field(c, "actions", <<>>)) > 0 THEN 1 ELSE 0
SelectionQuestions(c) ==
    IF Field(c, "selected_text", "") # "" THEN 1 ELSE 0
CutTo(t, n) == SubSeq(t, 1, Min(Len(t), n))

\* C21: the suggestions are, in this order, a question about the first
\* heading iff there is a heading, a question about the first action iff
\* there is an action, a question quoting the first 50 characters of the
\* selection iff there is a selection, then the two generic prompts: between
\* 2 and 5 questions, the generic prompts always the last two.
C21_SuggestionsInOrder ==
    AnalyzedOk
      => LET c == analyzeBody.context
             sg == analyzeRes.suggestions
             nh == HeadingQuestions(c)
             na == ActionQuestions(c)
             ns == SelectionQuestions(c)
             k == nh + na + ns
         IN
         /\ Len(sg) = k + 2
         /\ Len(sg) \in 2..5
         /\ nh = 1 => /\ StartsWith(sg[1], "What does the \"")
                      /\ HasText(c.headings[1])
                           => sg[1] = "What does the \"" \o c.headings[1].text \o "\" section cover?"
         /\ na = 1 => sg[nh + 1] = "What happens when I click \"" \o c.actions[1].text \o "\"?"
         /\ ns = 1 => sg[nh + na + 1] =
                        "Explain the selected text: \"" \o CutTo(c.selected_text, 50) \o "...\""
         /\ sg[k + 1] = "What is this page about?"
         /\ sg[k + 2] = "How do I navigate this page?"

\* a snapshot with a heading, an action and a selection longer than 50
\* characters has been analysed: five suggestions
C21_Witness ==
    /\ AnalyzedOk
    /\ "headings" \in DOMAIN analyzeBody.context
    /\ Len(analyzeBody.context.headings) > 0
    /\ Len(analyzeBody.context.actions) > 0
    /\ Len(analyzeBody.context.selected_text) > 50
    /\ Len(analyzeRes.suggestions) = 5

\* a request that got past validation has been answered or has failed
AskHandled == askPc = "done" /\ askRes.status # 400

\* C22: a handled request has called the remote model exactly once; the
\* fallback has run at most once, only when that one call failed, and never
\* when the call returned.
C22_OneRemoteAttempt ==
    /\ askRemoteCalls <= 1
    /\ askFallbackCalls <= 1
    /\ AskHandled => askRemoteCalls = 1
    /\ askFallbackCalls = 1 => (askRemoteCalls = 1 /\ askRemote = "fails")
    /\ askRemote \in {"content", "empty"} => askFallbackCalls = 0

\* C23: when an on-demand extraction ends without a result (the script call
\* rejected, or nothing came back), the requester gets a failure reply with a
\* message, and the step leaves the stored snapshot and the current tab id as
\* they were.
C23_FailedExtractionStoresNothing ==
    [][\A c \in calls :
         (c.pc = "resume" /\ c.result = Null /\ ExtractResume(c))
            => /\ lastReply' # Null
               /\ ~lastReply'.success
               /\ lastReply'.error # ""
               /\ currentContext' = currentContext
               /\ currentTabId' = currentTabId]_vars

\* the failure reply of an extraction that returned nothing, with the
\* snapshot stored earlier still there
C23_Witness ==
    /\ lastReply = Failure("Failed to extract context")
    /\ currentContext # Null

\* C24: whichever entry point ran the extraction, an error thrown while the
\* document is read does not leave the entry point: the on-request handlers
\* reply {success: false, error}, the automatic push sends nothing, the
\* panel's extractor returns null.
C24_NoErrorEscapes ==
    (snapshot # Null /\ snapshot.context = Null)
      => /\ snapshot.handed.ok
         /\ snapshot.by \in {"content", "injected"}
              => /\ ~snapshot.handed.value.success
                 /\ snapshot.handed.value.error # ""
         /\ snapshot.by \in {"auto", "panel"} => snapshot.handed.value = Null

\* the automatic push has failed on a document with headings
C24_Witness ==
    /\ snapshot # Null
    /\ snapshot.by = "auto"
    /\ snapshot.context = Null
    /\ Len(dom.headings) > 0

\* C25: a page has at most one selection timer pending; a selection-change
\* event sends nothing and leaves exactly one timer pending; the timer, when
\* it fires, leaves none pending and sends at most one message, which carries
\* the selection text as it is then and no snapshot.
C25_OnePending == \A t \in Tabs : selTimer[t] <= 1
C25_Step ==
    /\ \A t \in Tabs, s \in SelTexts :
          SelectionChange(t, s) => (msgs' = msgs /\ selTimer'[t] = 1)
    /\ \A t \in Tabs :
          SelectionTimer(t)
            => /\ selTimer'[t] = 0
               /\ msgs \subseteq msgs'
               /\ msgs' \ msgs \subseteq
                    {[action |-> "selectionChanged", tab |-> t, selectedText |-> sel[t]]}
C25_SelectionPushDebounced == [](C25_OnePending) /\ [][C25_Step]_vars

\* a selection message is on its way, the selection has changed again since,
\* and the timer is pending once more
C25_Witness ==
    \E m \in msgs :
      /\ m.action = "selectionChanged"
      /\ selTimer[m.tab] = 1
      /\ sel[m.tab] # m.selectedText

\* C26: in a snapshot that reaches the coordinator's store (the automatic
\* push, the extractor background.js injects) or the panel (the extractor
\* sidepanel.js injects), every heading text is trimmed, non-empty and shorter
\* than 200 characters, and every action text has 3 to 50 characters.
C26_TextsTrimmedAndBounded ==
    (snapshot # Null /\ snapshot.context # Null /\ snapshot.by \in {"auto", "injected", "panel"})
      => LET c == snapshot.context IN
         /\ \A i \in 1..Len(c.headings) :
              LET t == HeadingText(c.headings[i]) IN
              t = Trim(t) /\ Len(t) > 0 /\ Len(t) < HeadingTextLimit
         /\ \A i \in 1..Len(c.actions) :
              Len(c.actions[i].text) >= 3 /\ Len(c.actions[i].text) <= ActionTextLimit

\* C27: a refresh that fails sets the error notice and nothing else; one whose
\* extractor returned null changes nothing at all; in both cases the snapshot
\* held, the answer, the history and the loading flag stay as they were, and
\* with the notice showing a refresh can be started and a question submitted
\* as before.
C27_Step ==
    \A r \in refreshes, o \in ScriptOutcomes :
      (/\ r.pc = "script"
       /\ ScriptResult(r.tab, o).rejected \/ ScriptResult(r.tab, o).result = Null
       /\ RefreshResume(r, o))
        => /\ pageContext' = pageContext
           /\ answer' = answer
           /\ conversationHistory' = conversationHistory
           /\ isLoading' = isLoading
           /\ question' = question
           /\ connectionStatus' = connectionStatus
           /\ error' = IF ScriptResult(r.tab, o).rejected THEN ExtractError ELSE error
C27_StillUsable ==
    (error = ExtractError /\ PanelInFlight < MaxInFlight)
      => /\ ENABLED ClickRefresh
         /\ (Trim(question) # "" /\ pageContext # Null /\ sent < MaxSubmits)
               => ENABLED (CtrlEnter /\ fetches' # fetches)
C27_FailedRefreshRecoverable == [](C27_StillUsable) /\ [][C27_Step]_vars

\* the notice of a failed refresh, with the snapshot and the answer of before
\* still held and a question typed
C27_Witness ==
    /\ error = ExtractError
    /\ pageContext # Null
    /\ answer # Null
    /\ Trim(question) # ""

\* C28: a refresh that succeeds leaves the panel with the snapshot the
\* coordinator has stored for the current tab: the store is not empty and the
\* panel's snapshot has its page and its selected text.
C28_PanelReadsTheStore ==
    [][\A r \in refreshes, o \in ScriptOutcomes :
         (/\ r.pc = "script"
          /\ RefreshResume(r, o)
          /\ ~ScriptResult(r.tab, o).rejected
          /\ ScriptResult(r.tab, o).result # Null)
            => /\ currentContext # Null
               /\ pageContext'.url = currentContext.url
               /\ pageContext'.selected_text = currentContext.selected_text]_vars

\* C29: a health probe, whatever its outcome, changes the connection status
\* only: the error notice, the snapshot, the answer, the history and the
\* loading flag are after it what they were before.
C29_ProbeChangesStatusOnly ==
    [][\A p \in probes, ok \in BOOLEAN :
         ProbeDone(p, ok)
           => /\ error' = error
              /\ pageContext' = pageContext
              /\ answer' = answer
              /\ conversationHistory' = conversationHistory
              /\ isLoading' = isLoading]_vars

\* a question that is missing, empty or made of spaces only
NoQuestion(body) ==
    \/ "question" \notin DOMAIN body
    \/ \A i \in 1..Len(body.question) : SubSeq(body.question, i, i) = " "

\* C30: a request without a question, or with a blank one, is answered 400
\* 'Question is required', with or without a context; a request with a
\* question and no context is answered 400 'Context is required'; for neither
\* is the remote model or the fallback called.
C30_RejectsQuestionThenContext ==
    askPc = "done"
      => /\ NoQuestion(askBody)
              => askRes = [status |-> 400, error |-> "Question is required"]
         /\ (~NoQuestion(askBody) /\ "context" \notin DOMAIN askBody)
              => askRes = [status |-> 400, error |-> "Context is required"]
         /\ (NoQuestion(askBody) \/ "context" \notin DOMAIN askBody)
              => (askRemoteCalls = 0 /\ askFallbackCalls = 0 /\ askAnswer = Null)

\* a request with a blank question and no context has been rejected
C30_Witness ==
    /\ askPc = "done"
    /\ askBody = [question |-> "  "]
    /\ askRes.status = 400

\* C31: whenever a snapshot is stored, the tab id recorded in it is the
\* coordinator's current tab id, also while an activation handler or an
\* extraction is suspended at an await.
C31_StoredSnapshotIsOfCurrentTab ==
    currentContext # Null => currentContext.tabId = currentTabId

\* C32: a push the coordinator accepted after the last tab event, that event
\* being an activation, is not erased by any step other than the receipt of
\* the next activation or navigation-complete event.
C32_AcceptedPushStays ==
    [][(/\ lastEvent.kind = "activated"
        /\ lastEvent.pushed
        /\ ~(\E t \in Tabs : OnActivated(t))
        /\ ~(\E t \in Tabs, s \in Schemes : t = activeTab /\ OnUpdated(t, s)))
          => currentContext' # Null]_vars

\* C33: the loading flag is true exactly when a request is outstanding.
C33_LoadingIffOutstanding == isLoading <=> (fetches # {})

\* C34: every conversation entry pairs its answer with the question text that
\* was sent in the request the answer belongs to.
C34_EntryPairsSentQuestion ==
    \A i \in 1..Len(conversationHistory) :
      conversationHistory[i].question = conversationHistory[i].answer.question

\* C35: a submit made while the panel holds no snapshot sends no request and
\* changes no panel state, whatever the question is; every request sent
\* carries a snapshot.
C35_RequestsCarrySnapshot == \A r \in fetches : r.context # Null
C35_NoSnapshotNoSubmit ==
    /\ [](C35_RequestsCarrySnapshot)
    /\ [][((ClickSubmit \/ CtrlEnter) /\ pageContext = Null) => UNCHANGED panelVars]_vars

\* a question is typed and nothing has been sent while the panel has no
\* snapshot yet
C35_Witness ==
    /\ pageContext = Null
    /\ Trim(question) # ""
    /\ ~isLoading
    /\ sent = 0
    /\ fetches = {}

\* C36: no selectionChanged message carries an empty text, and no step of the
\* selection path (the event, the timer, the handling of the message) turns a
\* stored non-empty selected text into an empty one.
C36_NoEmptyMessage ==
    \A m \in msgs : m.action = "selectionChanged" => m.selectedText # ""
C36_Step ==
    (/\ currentContext # Null
     /\ currentContext.selected_text # ""
     /\ \/ \E t \in Tabs, s \in SelTexts : SelectionChange(t, s)
        \/ \E t \in Tabs : SelectionTimer(t)
        \/ \E m \in msgs : HandleSelectionChanged(m))
      => (currentContext' # Null /\ currentContext'.selected_text # "")
C37_NoCurrentTab == lastEvent.kind = "none" => currentTabId = NoTab
C37_ReadsReturnNothing ==
    lastEvent.kind = "none" =>
      /\ currentContext = Null
      /\ lastRead # Null => lastRead.context = Null
C37_Step ==
    lastEvent.kind = "none" =>
      /\ \A m \in msgs : (HandleContextExtracted(m) \/ HandleSelectionChanged(m))
                           => currentContext' = currentContext
      /\ ExtractContext(NoTab) => (lastReply' = Failure("No active tab") /\ calls' = calls)
C37_MessagesIgnored == [](C37_NoCurrentTab) /\ [][C37_Step]_vars
C37_BeforeFirstTabEvent ==
    [](C37_NoCurrentTab /\ C37_ReadsReturnNothing) /\ [][C37_Step]_vars

\* the question names the selection and none of the classes tried before the
\* selection class matches it
AsksForSelection(q) ==
    /\ Includes(q, "selected") \/ Includes(q, "highlight")
    /\ \A i \in 1..5 : ~ClassMatches(ClassOrder[i], q, <<>>)

\* C38: the selection answer is given only against a non-empty selected text;
\* a question with 'selected' or 'highlight' that reaches the selection test
\* with an empty selected text gets the summary answer if it has 'summary' or
\* 'about', else the help answer if it has 'help' or 'how', else the generic
\* answer.
C38_SelectionNeedsSelectedText ==
    (FallbackRan /\ askAnswer.ok) =>
      LET q == ToLowerCase(askBody.question)
          selectedText == Field(askBody.context, "selected_text", "")
      IN
      /\ StartsWith(askAnswer.value, "You have selected the text: ") => selectedText # ""
      /\ (AsksForSelection(q) /\ selectedText = "") =>
           AnswerIsOfClass(askAnswer.value,
                           IF Includes(q, "summary") \/ Includes(q, "about") THEN "summary"
                           ELSE IF Includes(q, "help") \/ Includes(q, "how") THEN "help"
                           ELSE "generic")

C38_Witness ==
    /\ FallbackRan
    /\ askAnswer.ok
    /\ askBody.question = "What is the selected text about?"
    /\ Field(askBody.context, "selected_text", "") = ""
    /\ StartsWith(askAnswer.value, "Based on the page context, ")

====
